---- MODULE Spec2Model ----
(***************************************************************************)
(* A model of main.py of pokedex-sample: the numeric-text classifier       *)
(* TextUtil.is_digit, the cell text resolver get_cell_text, the class      *)
(* Pokedex and the __main__ script.                                        *)
(*                                                                         *)
(* A text is a sequence of one-character strings.  "^2" stands for the     *)
(* single character U+00B2 (SUPERSCRIPT TWO), a character str.isdigit()    *)
(* accepts and int() refuses.                                              *)
(***************************************************************************)
EXTENDS Integers, Sequences, FiniteSets, TLC

VARIABLES
    text,           \* SpecText: the raw text handed to the text functions
    tpc,            \* SpecText: "input" | "classified" | "resolved"
    is_digit_ret,   \* SpecText: what TextUtil.is_digit(text) returned
    cell_ret,       \* SpecText: what get_cell_text(text) returned or raised
    client,         \* "main": the __main__ script; "any": an arbitrary caller
    pc,             \* position of the caller
    exc,            \* the exception the last call raised, "none" if none
    document,       \* what the source URL serves (input)
    fetches,        \* number of requests.get calls performed so far
    constructed,    \* TRUE once Pokedex() has returned an instance
    pokedex_table,  \* self.__pokedex_table__
    table_ret,      \* what get_pokedex_table last returned
    column_labels,  \* the caller's column_labels
    content_rows,   \* the caller's content_rows
    data_dict,      \* the dict under construction: label -> list object (reference)
    heap,           \* the list objects: reference -> list of values
    row_i,          \* index of the row of content_rows in the outer for loop
    cell_j,         \* index of the pair of cell_col_zip in the inner for loop
    ret_dict,       \* what get_pokedex_data_dict returned: label -> list of values
    df,             \* the DataFrame
    csv_file,       \* pokedex.csv: absent, or its lines
    steps,          \* the steps performed so far, in order
    last_call,      \* the constructor or method called last
    ncalls          \* number of calls made by the arbitrary caller

textVars == <<text, tpc, is_digit_ret, cell_ret>>

runVars == <<client, pc, exc, document, fetches, constructed, pokedex_table,
             table_ret, column_labels, content_rows, data_dict, heap, row_i,
             cell_j, ret_dict, df, csv_file, steps, last_call, ncalls>>

vars == <<textVars, runVars>>

-----------------------------------------------------------------------------
(* Bounds *)

MaxLen == 4

Chars == {"0", "7", "-", "+", "x", " ", "^2"}

Texts == UNION {[1..n -> Chars] : n \in 0..MaxLen}

-----------------------------------------------------------------------------
(* Python's str and int operations, as main.py uses them *)

DecimalDigits == {"0", "1", "2", "3", "4", "5", "6", "7", "8", "9"}

\* the characters c with c.isdigit(): the decimal digits and digit-like
\* characters such as the superscripts
IsDigitChars == DecimalDigits \cup {"^2"}

Whitespace == {" "}

DigitVal(c) == CHOOSE d \in 0..9 : <<"0", "1", "2", "3", "4", "5", "6", "7", "8", "9">>[d + 1] = c

\* s[:2]
prefix2(s) == SubSeq(s, 1, IF Len(s) < 2 THEN Len(s) ELSE 2)

\* s.lstrip(c): every leading occurrence of c is removed
RECURSIVE lstrip(_, _)
lstrip(s, c) == IF s # <<>> /\ Head(s) = c THEN lstrip(Tail(s), c) ELSE s

\* s.isdigit()
isdigit(s) == s # <<>> /\ \A k \in 1..Len(s) : s[k] \in IsDigitChars

RECURSIVE lstrip_ws(_)
lstrip_ws(s) == IF s # <<>> /\ Head(s) \in Whitespace THEN lstrip_ws(Tail(s)) ELSE s

RECURSIVE rstrip_ws(_)
rstrip_ws(s) ==
    IF s # <<>> /\ s[Len(s)] \in Whitespace THEN rstrip_ws(SubSeq(s, 1, Len(s) - 1)) ELSE s

\* s.strip()
strip(s) == rstrip_ws(lstrip_ws(s))

\* the values a cell resolves to: an int, a str, or a raised ValueError
IntValue(n) == [tag |-> "int", int |-> n, str |-> <<>>]
StrValue(s) == [tag |-> "str", int |-> 0, str |-> s]
ValueError == [tag |-> "ValueError", int |-> 0, str |-> <<>>]
NoValue == [tag |-> "none", int |-> 0, str |-> <<>>]

RECURSIVE digits_value(_)
digits_value(s) ==
    IF s = <<>> THEN 0 ELSE 10 * digits_value(SubSeq(s, 1, Len(s) - 1)) + DigitVal(s[Len(s)])

\* int(s): surrounding whitespace is dropped, then at most one sign, then one
\* or more decimal digits; anything else raises ValueError
py_int(s) ==
    LET t == strip(s)
        signed == t # <<>> /\ Head(t) \in {"+", "-"}
        body == IF signed THEN Tail(t) ELSE t
    IN  IF body # <<>> /\ \A k \in 1..Len(body) : body[k] \in DecimalDigits
        THEN IntValue(IF signed /\ Head(t) = "-" THEN 0 - digits_value(body)
                      ELSE digits_value(body))
        ELSE ValueError

-----------------------------------------------------------------------------
(* TextUtil.is_digit and get_cell_text *)

is_digit_one_sign(s) ==
    /\ prefix2(s) # <<"+", "-">>
    /\ prefix2(s) # <<"-", "+">>
    /\ isdigit(lstrip(s, "-"))

is_digit(s) ==
    /\ prefix2(s) # <<"+", "-">>
    /\ prefix2(s) # <<"-", "+">>
    /\ isdigit(lstrip(lstrip(s, "-"), "+"))

get_cell_text(cell_text) ==
    IF is_digit(cell_text) THEN py_int(cell_text) ELSE StrValue(strip(cell_text))

-----------------------------------------------------------------------------
(* The text functions called on their own: SpecText *)

NoneTable == [is_none |-> TRUE, has_thead |-> FALSE, thead |-> <<>>,
              has_tbody |-> FALSE, tbody |-> <<>>]

EmptyDict == [keys |-> <<>>, ref |-> <<>>]

NoFile == <<>>

RunIdle ==
    /\ client = "none" /\ pc = "none" /\ exc = "none"
    /\ document = [status |-> "none", table |-> NoneTable]
    /\ fetches = 0 /\ constructed = FALSE
    /\ pokedex_table = NoneTable /\ table_ret = NoneTable
    /\ column_labels = <<>> /\ content_rows = <<>>
    /\ data_dict = EmptyDict /\ heap = <<>> /\ row_i = 0 /\ cell_j = 0
    /\ ret_dict = EmptyDict /\ df = EmptyDict /\ csv_file = NoFile
    /\ steps = <<>> /\ last_call = "none" /\ ncalls = 0

InitText ==
    /\ text \in Texts
    /\ tpc = "input"
    /\ is_digit_ret = FALSE
    /\ cell_ret = NoValue
    /\ RunIdle

CallIsDigit ==
    /\ tpc = "input"
    /\ is_digit_ret' = is_digit(text)
    /\ tpc' = "classified"
    /\ UNCHANGED <<text, cell_ret, runVars>>

CallGetCellText ==
    /\ tpc = "classified"
    /\ cell_ret' = get_cell_text(text)
    /\ tpc' = "resolved"
    /\ UNCHANGED <<text, is_digit_ret, runVars>>

NextText == CallIsDigit \/ CallGetCellText

SpecText == InitText /\ [][NextText]_vars

-----------------------------------------------------------------------------
(* The served document, the Pokedex class and the __main__ script *)

MaxLabels == 2

MaxRows == 2

MaxCells == 4

MaxCalls == 3

Labels == {"A", "B"}

CellTexts == {<<"+", "7">>, <<" ", "x">>, <<"-", "-", "7">>}

\* the caller of SpecInstance is given pages whose cells all resolve
InstanceCellTexts == {<<"+", "7">>}

SeqsUpTo(S, n) == UNION {[1..k -> S] : k \in 0..n}

\* the bodies of at most r rows and at most n cells in all, over the texts T
RECURSIVE Bodies(_, _, _)
Bodies(T, r, n) ==
    IF r = 0 THEN {<<>>}
    ELSE {<<>>} \cup
         UNION {{<<row>> \o rest : rest \in Bodies(T, r - 1, n - Len(row))} :
                    row \in SeqsUpTo(T, n)}

\* thead: the non-empty stripped text segments of the header section;
\* tbody: the <tr> rows, each the texts of its <td> cells
Tables(T) ==
    {t \in [is_none : {FALSE}, has_thead : BOOLEAN, thead : SeqsUpTo(Labels, MaxLabels),
            has_tbody : BOOLEAN, tbody : Bodies(T, MaxRows, MaxCells)] :
        /\ (~t.has_thead => t.thead = <<>>)
        /\ (~t.has_tbody => t.tbody = <<>>)}

\* status "error": requests.get raises; otherwise the page, in which the
\* element with id 'pokedex' is present or not
Documents(T) ==
    [status : {"error"}, table : {NoneTable}] \cup
    [status : {"ok"}, table : Tables(T) \cup {NoneTable}]

StaleFile == <<<<"stale">>>>

At(line) == IF client = "main" THEN pc = line ELSE pc = "idle" /\ ncalls < MaxCalls

After(line) == IF client = "main" THEN line ELSE "idle"

Raised == IF client = "main" THEN "raised" ELSE "idle"

Log(name) == IF client = "main" THEN Append(steps, name) ELSE steps

Called == IF client = "main" THEN ncalls ELSE ncalls + 1

buildVars == <<data_dict, heap, row_i, cell_j, ret_dict>>

\* soup.find(id='pokedex'): the element, or None
soup_find(doc) == doc.table

\* line 66: page = requests.get(self.__pokedex_url__)
Fetch ==
    /\ pc = "l128"
    /\ fetches' = fetches + 1
    /\ steps' = Log("fetch")
    /\ last_call' = "Pokedex"
    /\ IF document.status = "error"
       THEN pc' = "raised" /\ exc' = "ConnectionError"
       ELSE pc' = "l67" /\ exc' = "none"
    /\ UNCHANGED <<textVars, client, document, constructed, pokedex_table, table_ret,
                   column_labels, content_rows, buildVars, df, csv_file, ncalls>>

\* lines 67-68 and 57: the table is located and retained, Pokedex() returns
init_table ==
    /\ pc = "l67"
    /\ pokedex_table' = soup_find(document)
    /\ constructed' = TRUE
    /\ steps' = Log("locate")
    /\ pc' = After("l129")
    /\ UNCHANGED <<textVars, client, exc, document, fetches, table_ret, column_labels,
                   content_rows, buildVars, df, csv_file, last_call, ncalls>>

get_pokedex_table_refetch ==
    /\ client = "any" /\ At("idle")
    /\ table_ret' = soup_find(document)
    /\ pokedex_table' = soup_find(document)
    /\ fetches' = fetches + 1
    /\ ncalls' = Called
    /\ last_call' = "get_pokedex_table"
    /\ exc' = "none"
    /\ UNCHANGED <<textVars, client, pc, document, constructed, column_labels,
                   content_rows, buildVars, df, csv_file, steps>>

\* lines 70-77
get_pokedex_table ==
    /\ client = "any" /\ At("idle")
    /\ table_ret' = pokedex_table
    /\ ncalls' = Called
    /\ last_call' = "get_pokedex_table"
    /\ exc' = "none"
    /\ UNCHANGED <<textVars, client, pc, document, fetches, constructed, pokedex_table,
                   column_labels, content_rows, buildVars, df, csv_file, steps>>

\* ''.split('\n') is [''], so a header section without text gives one empty label
split_lines(segments) == IF segments = <<>> THEN <<"">> ELSE segments

get_pokedex_column_labels_lenient ==
    /\ At("l129")
    /\ steps' = Log("labels")
    /\ ncalls' = Called
    /\ last_call' = "get_pokedex_column_labels"
    /\ column_labels' = split_lines(pokedex_table.thead)
    /\ pc' = After("l130") /\ exc' = "none"
    /\ UNCHANGED <<textVars, client, document, fetches, constructed, pokedex_table,
                   table_ret, content_rows, buildVars, df, csv_file>>

\* lines 79-87: None.find and None.get_text raise AttributeError
get_pokedex_column_labels ==
    /\ At("l129")
    /\ steps' = Log("labels")
    /\ ncalls' = Called
    /\ last_call' = "get_pokedex_column_labels"
    /\ IF pokedex_table.is_none \/ ~pokedex_table.has_thead
       THEN pc' = Raised /\ exc' = "AttributeError" /\ UNCHANGED column_labels
       ELSE /\ column_labels' = split_lines(pokedex_table.thead)
            /\ pc' = After("l130") /\ exc' = "none"
    /\ UNCHANGED <<textVars, client, document, fetches, constructed, pokedex_table,
                   table_ret, content_rows, buildVars, df, csv_file>>

get_pokedex_content_rows_lenient ==
    /\ At("l130")
    /\ steps' = Log("rows")
    /\ ncalls' = Called
    /\ last_call' = "get_pokedex_content_rows"
    /\ content_rows' = pokedex_table.tbody
    /\ pc' = After("l131") /\ exc' = "none"
    /\ UNCHANGED <<textVars, client, document, fetches, constructed, pokedex_table,
                   table_ret, column_labels, buildVars, df, csv_file>>

\* lines 89-101
get_pokedex_content_rows ==
    /\ At("l130")
    /\ steps' = Log("rows")
    /\ ncalls' = Called
    /\ last_call' = "get_pokedex_content_rows"
    /\ IF pokedex_table.is_none \/ ~pokedex_table.has_tbody
       THEN pc' = Raised /\ exc' = "AttributeError" /\ UNCHANGED content_rows
       ELSE /\ content_rows' = pokedex_table.tbody
            /\ pc' = After("l131") /\ exc' = "none"
    /\ UNCHANGED <<textVars, client, document, fetches, constructed, pokedex_table,
                   table_ret, column_labels, buildVars, df, csv_file>>

\* the keys of dict.fromkeys(labels, ...): the labels in order of first occurrence
RECURSIVE dict_keys(_)
dict_keys(labels) ==
    IF labels = <<>> THEN <<>>
    ELSE LET front == SubSeq(labels, 1, Len(labels) - 1)
             last == labels[Len(labels)]
         IN  IF \E k \in 1..Len(front) : front[k] = last
             THEN dict_keys(front) ELSE Append(dict_keys(front), last)

Range(f) == {f[x] : x \in DOMAIN f}

\* line 116: data_dict = dict.fromkeys(column_labels, []): one list object,
\* reference 1, is the value of every key
fromkeys ==
    /\ At("l131")
    /\ steps' = Log("build")
    /\ ncalls' = Called
    /\ last_call' = "get_pokedex_data_dict"
    /\ data_dict' = [keys |-> dict_keys(column_labels),
                     ref |-> [l \in Range(column_labels) |-> 1]]
    /\ heap' = <<<<>>>>
    /\ row_i' = 1 /\ cell_j' = 1
    /\ ret_dict' = EmptyDict
    /\ pc' = "l117" /\ exc' = "none"
    /\ UNCHANGED <<textVars, client, document, fetches, constructed, pokedex_table,
                   table_ret, column_labels, content_rows, df, csv_file>>

\* lines 117-119: the next row, its cells zipped with the labels
for_data_row ==
    /\ pc = "l117"
    /\ IF row_i <= Len(content_rows)
       THEN pc' = "l120" /\ cell_j' = 1
       ELSE pc' = "l124" /\ UNCHANGED cell_j
    /\ UNCHANGED <<textVars, client, exc, document, fetches, constructed, pokedex_table,
                   table_ret, column_labels, content_rows, data_dict, heap, row_i,
                   ret_dict, df, csv_file, steps, last_call, ncalls>>

append_in_place(dd, hp, col_label, cell_text) ==
    [dict |-> dd,
     heap |-> [hp EXCEPT ![dd.ref[col_label]] = Append(@, cell_text)]]

\* lines 122-123: updated_values is a new list object, bound to col_label
update_values(dd, hp, col_label, cell_text) ==
    [dict |-> [dd EXCEPT !.ref[col_label] = Len(hp) + 1],
     heap |-> Append(hp, hp[dd.ref[col_label]] \o <<cell_text>>)]

zip_drops_last(row_cells, labels, j) == j <= Len(row_cells) /\ j < Len(labels)

\* line 119: zip(row_cells, column_labels) has a j-th pair; the zip ends with
\* the shorter of the row's cells and the labels
zip_has_next(row_cells, labels, j) == j <= Len(row_cells) /\ j <= Len(labels)

\* lines 120-123: one pair of the zip
for_cell ==
    /\ pc = "l120"
    /\ LET row_cells == content_rows[row_i]
       IN  IF zip_has_next(row_cells, column_labels, cell_j)
           THEN LET cell_text == get_cell_text(row_cells[cell_j])
                    upd == update_values(data_dict, heap, column_labels[cell_j], cell_text)
                IN  IF cell_text = ValueError
                    THEN /\ pc' = Raised /\ exc' = "ValueError"
                         /\ UNCHANGED <<data_dict, heap, row_i, cell_j>>
                    ELSE /\ data_dict' = upd.dict /\ heap' = upd.heap
                         /\ cell_j' = cell_j + 1
                         /\ UNCHANGED <<pc, exc, row_i>>
           ELSE /\ row_i' = row_i + 1 /\ pc' = "l117"
                /\ UNCHANGED <<exc, data_dict, heap, cell_j>>
    /\ UNCHANGED <<textVars, client, document, fetches, constructed, pokedex_table,
                   table_ret, column_labels, content_rows, ret_dict, df, csv_file,
                   steps, last_call, ncalls>>

\* line 124: return data_dict
return_data_dict ==
    /\ pc = "l124"
    /\ ret_dict' = [keys |-> data_dict.keys,
                    ref |-> [l \in DOMAIN data_dict.ref |-> heap[data_dict.ref[l]]]]
    /\ pc' = After("l132")
    /\ UNCHANGED <<textVars, client, exc, document, fetches, constructed, pokedex_table,
                   table_ret, column_labels, content_rows, data_dict, heap, row_i,
                   cell_j, df, csv_file, steps, last_call, ncalls>>

ColumnLengths(d) == {Len(d.ref[l]) : l \in DOMAIN d.ref}

\* line 132: pd.DataFrame(data_dict) raises ValueError unless all the lists
\* have the same length
DataFrame ==
    /\ client = "main" /\ pc = "l132"
    /\ steps' = Log("frame")
    /\ IF Cardinality(ColumnLengths(ret_dict)) > 1
       THEN pc' = "raised" /\ exc' = "ValueError" /\ UNCHANGED df
       ELSE df' = ret_dict /\ pc' = "l133" /\ UNCHANGED exc
    /\ UNCHANGED <<textVars, client, document, fetches, constructed, pokedex_table,
                   table_ret, column_labels, content_rows, buildVars, csv_file,
                   last_call, ncalls>>

RECURSIVE nat_str(_)
nat_str(n) ==
    LET d == <<"0", "1", "2", "3", "4", "5", "6", "7", "8", "9">>[(n % 10) + 1]
    IN  IF n < 10 THEN <<d>> ELSE Append(nat_str(n \div 10), d)

\* a value as to_csv writes it
csv_field(v) ==
    IF v.tag = "int"
    THEN (IF v.int < 0 THEN <<"-">> \o nat_str(0 - v.int) ELSE nat_str(v.int))
    ELSE v.str

frame_rows(d) == IF d.keys = <<>> THEN 0 ELSE Len(d.ref[d.keys[1]])

csv_lines_with_index(d) ==
    <<<<"">> \o d.keys>> \o
    [r \in 1..frame_rows(d) |->
        <<nat_str(r - 1)>> \o [k \in 1..Len(d.keys) |-> csv_field(d.ref[d.keys[k]][r])]]

\* df.to_csv(index=False): the header line, then one line per row of the frame
csv_lines(d) ==
    <<d.keys>> \o
    [r \in 1..frame_rows(d) |-> [k \in 1..Len(d.keys) |-> csv_field(d.ref[d.keys[k]][r])]]

\* line 133
to_csv ==
    /\ client = "main" /\ pc = "l133"
    /\ steps' = Log("write")
    /\ csv_file' = csv_lines(df)
    /\ pc' = "done"
    /\ UNCHANGED <<textVars, client, exc, document, fetches, constructed, pokedex_table,
                   table_ret, column_labels, content_rows, buildVars, df, last_call,
                   ncalls>>

TextIdle == text = <<>> /\ tpc = "input" /\ is_digit_ret = FALSE /\ cell_ret = NoValue

InitRun(T) ==
    /\ pc = "l128" /\ exc = "none"
    /\ document \in Documents(T)
    /\ fetches = 0 /\ constructed = FALSE
    /\ pokedex_table = NoneTable /\ table_ret = NoneTable
    /\ column_labels = <<>> /\ content_rows = <<>>
    /\ data_dict = EmptyDict /\ heap = <<>> /\ row_i = 0 /\ cell_j = 0
    /\ ret_dict = EmptyDict /\ df = EmptyDict
    /\ steps = <<>> /\ last_call = "none" /\ ncalls = 0
    /\ TextIdle

\* python main.py, in a directory where an earlier run left a pokedex.csv
Init == client = "main" /\ csv_file = StaleFile /\ InitRun(CellTexts)

Next ==
    \/ Fetch
    \/ init_table
    \/ get_pokedex_column_labels
    \/ get_pokedex_content_rows
    \/ fromkeys
    \/ for_data_row
    \/ for_cell
    \/ return_data_dict
    \/ DataFrame
    \/ to_csv

Spec == Init /\ [][Next]_vars

\* one Pokedex instance and a caller that calls its methods in any order
InitInstance == client = "any" /\ csv_file = NoFile /\ InitRun(InstanceCellTexts)

NextInstance ==
    \/ Fetch
    \/ init_table
    \/ get_pokedex_table
    \/ get_pokedex_column_labels
    \/ get_pokedex_content_rows
    \/ fromkeys
    \/ for_data_row
    \/ for_cell
    \/ return_data_dict

SpecInstance == InitInstance /\ [][NextInstance]_vars

-----------------------------------------------------------------------------
(* Claims about the text functions, checked under SpecText *)

\* one or more decimal digits, optionally prefixed with a single '+' or '-'
SignedDecimal(s) ==
    LET body == IF s # <<>> /\ Head(s) \in {"+", "-"} THEN Tail(s) ELSE s
    IN  body # <<>> /\ \A k \in 1..Len(body) : body[k] \in DecimalDigits

\* C2: is_digit returns true for every string of one or more decimal digits
\* optionally prefixed with a single '+' or a single '-'.
ThmC2 == (tpc # "input" /\ SignedDecimal(text)) => is_digit_ret = TRUE

WitC2 == tpc = "classified" /\ text = <<"-", "7", "0">> /\ is_digit_ret = TRUE

\* C3: is_digit returns false for every string that, after removing at most
\* one leading sign character, is empty or still contains a character that is
\* not a decimal digit.
CexC3 == (tpc # "input" /\ ~SignedDecimal(text)) => is_digit_ret = FALSE

\* C4: get_cell_text never fails: on a text is_digit accepts it returns an
\* integer, on a text is_digit rejects it returns the text stripped of
\* leading and trailing whitespace.
CexC4 ==
    tpc = "resolved" =>
        IF is_digit_ret THEN cell_ret.tag = "int" ELSE cell_ret = StrValue(strip(text))

-----------------------------------------------------------------------------
(* Claims about get_pokedex_data_dict and the __main__ script, checked under Spec *)

Distinct(labels) ==
    \A a, b \in 1..Len(labels) : a # b => labels[a] # labels[b]

\* the resolved values of the k-th cell of each row that has a k-th cell, in row order
RECURSIVE column_of(_, _)
column_of(rows, k) ==
    IF rows = <<>> THEN <<>>
    ELSE LET front == column_of(SubSeq(rows, 1, Len(rows) - 1), k)
             last == rows[Len(rows)]
         IN  IF k <= Len(last) THEN Append(front, get_cell_text(last[k])) ELSE front

\* get_pokedex_data_dict has returned to the script / has raised
BuildReturned == pc \in {"l132", "l133", "done"} \/ (pc = "raised" /\ Len(steps) = 6)

BuildRaised == pc = "raised" /\ Len(steps) = 5

\* C1: for every sequence of labels and every sequence of rows the build
\* returns a table that maps the label at position k to the resolved values,
\* in row order, of the k-th cell of each row that has a k-th cell.
CexC1 ==
    (BuildReturned \/ BuildRaised) =>
        /\ BuildReturned
        /\ \A k \in 1..Len(column_labels) :
              ret_dict.ref[column_labels[k]] = column_of(content_rows, k)

UniformRows ==
    \A a, b \in 1..Len(content_rows) : Len(content_rows[a]) = Len(content_rows[b])

AllColumnsHaveOneEntryPerRow ==
    \A l \in DOMAIN ret_dict.ref : Len(ret_dict.ref[l]) = Len(content_rows)

\* C5 as stated: once the build completes on rows that all have the same
\* number of cells, every label's sequence has as many entries as there are rows.
CexC5 == (BuildReturned /\ UniformRows) => AllColumnsHaveOneEntryPerRow

\* C5 amended: once the build completes on pairwise distinct labels and rows
\* that all have the same number of cells, that number being at least the
\* number of labels, every label's sequence has as many entries as there are rows.
ThmC5 ==
    (/\ BuildReturned /\ UniformRows /\ Distinct(column_labels)
     /\ \A r \in 1..Len(content_rows) : Len(content_rows[r]) >= Len(column_labels))
    => AllColumnsHaveOneEntryPerRow

WitC5 ==
    /\ BuildReturned
    /\ column_labels = <<"A", "B">>
    /\ Len(content_rows) = 2
    /\ \A r \in 1..Len(content_rows) : Len(content_rows[r]) = 2
    /\ Len(ret_dict.ref["A"]) = 2 /\ Len(ret_dict.ref["B"]) = 2

\* the file the claim describes: the labels, then per row the fields of its
\* cells in label order
FileIsHeaderThenOneLinePerRow ==
    /\ Len(csv_file) = 1 + Len(content_rows)
    /\ csv_file[1] = column_labels
    /\ \A r \in 1..Len(content_rows) :
          csv_file[1 + r] = [k \in 1..Len(column_labels) |->
                                csv_field(get_cell_text(content_rows[r][k]))]

\* C6 as stated: when a run completes, the file is the header line of the
\* labels followed by exactly one line per content row, in row order.
CexC6 == pc = "done" => FileIsHeaderThenOneLinePerRow

\* C6 amended: when a run completes on pairwise distinct labels and content
\* rows that each have at least one cell, the file is the header line of the
\* labels followed by exactly one line per content row, in row order.
ThmC6 ==
    (/\ pc = "done" /\ Distinct(column_labels)
     /\ \A r \in 1..Len(content_rows) : Len(content_rows[r]) >= 1)
    => FileIsHeaderThenOneLinePerRow

WitC6 ==
    /\ pc = "done"
    /\ content_rows = <<<< <<"+", "7">>, <<" ", "x">> >>, << <<" ", "x">>, <<"+", "7">> >>>>
    /\ csv_file = << <<"A", "B">>, << <<"7">>, <<"x">> >>, << <<"x">>, <<"7">> >> >>

StepOrder == <<"fetch", "locate", "labels", "rows", "build", "frame", "write">>

IsPrefix(s, t) == Len(s) <= Len(t) /\ s = SubSeq(t, 1, Len(s))

Written == csv_file # StaleFile

\* the pairs <<row, position>> of the cells the zip pairs with a label
PairedCells(labels, rows) ==
    {p \in (1..Len(rows)) \X (1..Len(labels)) : p[2] <= Len(rows[p[1]])}

\* a failure of a step before the write, read off the served document
InputFailure(doc) ==
    \/ doc.status = "error"
    \/ doc.table.is_none
    \/ ~doc.table.has_thead
    \/ ~doc.table.has_tbody
    \/ LET labels == split_lines(doc.table.thead)
           rows == doc.table.tbody
           entries(l) == Cardinality({p \in PairedCells(labels, rows) : labels[p[2]] = l})
       IN  \/ \E p \in PairedCells(labels, rows) : get_cell_text(rows[p[1]][p[2]]) = ValueError
           \/ \E a, b \in 1..Len(labels) : entries(labels[a]) # entries(labels[b])

\* C7: the steps happen in the order fetch, locate, labels and rows, build,
\* write, each at most once, and when a step before the write fails the run
\* aborts and pokedex.csv is neither written nor overwritten.
ThmC7 ==
    /\ IsPrefix(steps, StepOrder)
    /\ (pc = "raised" => ~Written)
    /\ (Written => ~InputFailure(document))
    /\ (Written => pc = "done" /\ steps = StepOrder)

WitC7 == pc = "raised" /\ exc = "ValueError" /\ Len(steps) = 6 /\ csv_file = StaleFile

\* C10: a step of the build that appends the value of the cell paired with
\* label L extends L's sequence by that one value and leaves the sequence of
\* every other label, the labels and the rows as they were; a step that
\* appends nothing changes no sequence.
ThmC10 ==
    [][pc = "l120" =>
        /\ column_labels' = column_labels
        /\ content_rows' = content_rows
        /\ DOMAIN data_dict'.ref = DOMAIN data_dict.ref
        /\ IF cell_j' = cell_j + 1
           THEN LET L == column_labels[cell_j]
                IN  /\ heap'[data_dict'.ref[L]] =
                           Append(heap[data_dict.ref[L]],
                                  get_cell_text(content_rows[row_i][cell_j]))
                    /\ \A l \in DOMAIN data_dict.ref \ {L} :
                           heap'[data_dict'.ref[l]] = heap[data_dict.ref[l]]
           ELSE \A l \in DOMAIN data_dict.ref :
                    heap'[data_dict'.ref[l]] = heap[data_dict.ref[l]]]_vars

WitC10 ==
    /\ pc = "l120" /\ row_i = 2 /\ cell_j = 2
    /\ column_labels = <<"A", "B">>
    /\ Len(heap[data_dict.ref["A"]]) = 2
    /\ Len(heap[data_dict.ref["B"]]) = 1

-----------------------------------------------------------------------------
(* Claims about the Pokedex instance, checked under SpecInstance *)

NoTableDocument == document.status = "ok" /\ document.table.is_none

\* C8 as stated: no Pokedex instance holding an absent table element is ever
\* returned to the caller of the constructor.
CexC8 == constructed => ~pokedex_table.is_none

\* C8 amended: when the fetched document has no element with the expected
\* identifier, Pokedex() returns an instance whose retained table is None;
\* the failure surfaces to the caller as an AttributeError at each call of
\* get_pokedex_column_labels or get_pokedex_content_rows, and
\* get_pokedex_table returns None.
ThmC8 ==
    NoTableDocument =>
        /\ pc # "raised"
        /\ (pc = "idle" => constructed /\ pokedex_table.is_none)
        /\ (last_call \in {"get_pokedex_column_labels", "get_pokedex_content_rows"}
                => exc = "AttributeError")
        /\ (last_call = "get_pokedex_table" => exc = "none" /\ table_ret.is_none)

WitC8 ==
    /\ NoTableDocument /\ constructed /\ pokedex_table.is_none
    /\ last_call = "get_pokedex_content_rows" /\ exc = "AttributeError"

\* C9: one Pokedex instance performs exactly one fetch, at construction; no
\* later call of its methods fetches again or changes the retained table.
ThmC9 == constructed => (fetches = 1 /\ pokedex_table = document.table)

WitC9 ==
    /\ constructed /\ fetches = 1 /\ ncalls = 3 /\ pc = "idle"
    /\ last_call = "get_pokedex_data_dict"
    /\ ~pokedex_table.is_none /\ table_ret = pokedex_table
    /\ Len(ret_dict.keys) = 2

====
